---------------------------- MODULE Spec2Model ----------------------------
(***************************************************************************)
(* Model of Magnon-Implementation/Simulations/magnon_hamiltonian_sweep.py: *)
(* the Bloch Hamiltonian builder, the band solver, the plaquette Berry     *)
(* curvature, the Chern integrator and the module-level (D, Bz) sweep.     *)
(*                                                                         *)
(* Reals are fixed-point integers: the real x is the integer x * SCALE.     *)
(* Products, quotients and square roots are rounded to the nearest         *)
(* representable value, as IEEE-754 arithmetic does, and are computed in   *)
(* pieces that stay inside 32-bit integers.  A complex number is a pair    *)
(* <<re, im>>, a 2-vector a pair of complex numbers.                       *)
(***************************************************************************)
EXTENDS Integers, Sequences, FiniteSets

(***************************************************************************)
(* Fixed-point arithmetic                                                  *)
(***************************************************************************)
SCALE == 10^6

\* the square root of SCALE: products are taken on halves of this size
HALF == 10^3

Abs(a) == IF a < 0 THEN -a ELSE a

\* integer quotient rounded toward zero (b > 0)
Quot(a, b) == IF a >= 0 THEN a \div b ELSE -((-a) \div b)

\* (m * HALF + l) / SCALE rounded to nearest, 0 <= l < HALF
MulRound(m, l) ==
    (m \div HALF) + (IF 2 * ((m % HALF) * HALF + l) >= SCALE THEN 1 ELSE 0)

\* (ah * HALF + al) * (bh * HALF + bl) / SCALE, rounded to nearest
MulParts(ah, al, bh, bl) ==
    ah * bh + MulRound(ah * bl + al * bh + ((al * bl) \div HALF), (al * bl) % HALF)

\* a * b / SCALE for a, b >= 0
MulAbs(a, b) == MulParts(a \div HALF, a % HALF, b \div HALF, b % HALF)

\* the float product a * b
Mul(a, b) == (IF (a >= 0) = (b >= 0) THEN 1 ELSE -1) * MulAbs(Abs(a), Abs(b))

\* n more decimal digits of the long division with quotient q and remainder
\* r so far, then rounding to nearest
RECURSIVE DivDigits(_, _, _, _)
DivDigits(q, r, b, n) ==
    IF n = 0 THEN q + (IF 2 * r >= b THEN 1 ELSE 0)
    ELSE DivDigits(q * 10 + ((r * 10) \div b), (r * 10) % b, b, n - 1)

\* a * SCALE / b for a >= 0, b > 0
DivAbs(a, b) == DivDigits(a \div b, a % b, b, 6)

\* the float quotient a / b (b > 0)
Div(a, b) == (IF a >= 0 THEN 1 ELSE -1) * DivAbs(Abs(a), b)

RECURSIVE IsqrtIter(_, _, _)
IsqrtIter(n, lo, hi) ==
    IF lo >= hi THEN lo
    ELSE LET mid == (lo + hi + 1) \div 2
         IN  IF mid * mid <= n THEN IsqrtIter(n, mid, hi)
                               ELSE IsqrtIter(n, lo, mid - 1)

\* floor of the square root of n >= 0 (n < 2^31)
Isqrt(n) == IsqrtIter(n, 0, 46340)

\* n Newton steps from s toward the square root of x
RECURSIVE SqrtIter(_, _, _)
SqrtIter(x, s, n) == IF n = 0 THEN s ELSE SqrtIter(x, (s + Div(x, s)) \div 2, n - 1)

\* np.sqrt(x), x >= 0
Sqrt(x) == IF x = 0 THEN 0 ELSE SqrtIter(x, Isqrt(x) * HALF, 4)

\* np.pi
PI == Quot(355 * SCALE + 56, 113)

TwoPI == 2 * PI

HalfPI == Quot(PI, 2)

\* x reduced to [-PI, PI)
WrapPI(x) == ((x + PI) % TwoPI) - PI

\* w in [-PI, PI) folded to [-PI/2, PI/2] with the same sine
FoldPI(w) ==
    IF w > HalfPI THEN PI - w
    ELSE IF w < -HalfPI THEN -PI - w
    ELSE w

\* the Taylor series of the sine from its term t of degree n, up to degree 13
RECURSIVE SinSeries(_, _, _)
SinSeries(t, x2, n) ==
    IF n > 13 THEN 0
    ELSE t + SinSeries(-Quot(Mul(t, x2), (n + 1) * (n + 2)), x2, n + 2)

\* np.sin on [-PI/2, PI/2]
SinReduced(r) == SinSeries(r, Mul(r, r), 1)

Sin(x) == SinReduced(FoldPI(WrapPI(x)))

Cos(x) == Sin(x + HalfPI)

\* tan(pi / 8) = sqrt(2) - 1
TanPi8 == Sqrt(2 * SCALE) - SCALE

\* 1/d - u2 * (1/(d+2) - u2 * (...)), the arctangent's Taylor series over u,
\* up to degree 15
RECURSIVE AtanSeries(_, _)
AtanSeries(u2, d) ==
    IF d > 15 THEN 0 ELSE Quot(SCALE, d) - Mul(u2, AtanSeries(u2, d + 2))

\* arctangent of u in [0, tan(pi/8)]
AtanSmall(u) == Mul(u, AtanSeries(Mul(u, u), 1))

\* arctangent of z in [0, 1]: atan(z) = pi/4 - atan((1 - z) / (1 + z))
Atan01(z) ==
    IF z <= TanPi8 THEN AtanSmall(z)
    ELSE Quot(PI, 4) - AtanSmall(Div(SCALE - z, SCALE + z))

\* arctangent of ay / ax for ax, ay >= 0, not both 0
AtanQuadrant(ax, ay) ==
    IF ax >= ay THEN Atan01(Div(ay, ax)) ELSE HalfPI - Atan01(Div(ax, ay))

\* the angle of (re, im), im >= 0, from its first-quadrant angle
ArgUpper(re, base) == IF re >= 0 THEN base ELSE PI - base

\* the principal argument atan2(im, re); 0 at the origin, as np.log(0j).imag
Arg(z) ==
    IF z[1] = 0 /\ z[2] = 0 THEN 0
    ELSE (IF z[2] < 0 THEN -1 ELSE 1) * ArgUpper(z[1], AtanQuadrant(Abs(z[1]), Abs(z[2])))

(***************************************************************************)
(* Complex numbers and vectors                                             *)
(***************************************************************************)
CAdd(a, b) == <<a[1] + b[1], a[2] + b[2]>>

CMul(a, b) == <<Mul(a[1], b[1]) - Mul(a[2], b[2]), Mul(a[1], b[2]) + Mul(a[2], b[1])>>

Conj(a) == <<a[1], -a[2]>>

\* np.exp(1j * x)
CExp(x) == <<Cos(x), Sin(x)>>

\* np.vdot(a, b): the first argument is conjugated
vdot(a, b) == CAdd(CMul(Conj(a[1]), b[1]), CMul(Conj(a[2]), b[2]))

\* np.dot of two real 2-vectors
dot(k, a) == Mul(k[1], a[1]) + Mul(k[2], a[2])

(***************************************************************************)
(* Lattice and spin parameters (module level)                              *)
(***************************************************************************)
\* Heisenberg exchange J = 1.0
J == SCALE

\* spin magnitude
S == 1

\* honeycomb geometry: a1, a2, a3 and the next-nearest-neighbour vectors
Sqrt3Half == Quot(Sqrt(3 * SCALE), 2)

a1 == <<SCALE, 0>>

a2 == <<-Quot(SCALE, 2), Sqrt3Half>>

a3 == <<-Quot(SCALE, 2), -Sqrt3Half>>

b1 == <<a1[1] - a2[1], a1[2] - a2[2]>>

b2 == <<a2[1] - a3[1], a2[2] - a3[2]>>

b3 == <<a3[1] - a1[1], a3[2] - a1[2]>>

\* nearest-neighbour structure factor f(k)
f_k(k_vec) == CAdd(CAdd(CExp(dot(k_vec, a1)), CExp(dot(k_vec, a2))), CExp(dot(k_vec, a3)))

\* next-nearest-neighbour (DM) structure factor g(k)
g_k(k_vec) == Sin(dot(k_vec, b1)) + Sin(dot(k_vec, b2)) + Sin(dot(k_vec, b3))

\* np.array([[h11, h12], [h12, h22]]): the conjugation left out
MatrixSymmetric(h11, h12, h22) == [h11 |-> h11, h12 |-> h12, h21 |-> h12, h22 |-> h22]

\* np.array([[h11, h12], [np.conj(h12), h22]])
Matrix(h11, h12, h22) == [h11 |-> h11, h12 |-> h12, h21 |-> Conj(h12), h22 |-> h22]

\* the DM term with the same sign on both sublattices
BlochMatrixEqualMass(Jv, Sv, D, Bz, f, g) ==
    Matrix(Bz * Sv + 2 * Mul(D * Sv, g),
           <<Mul(Jv * Sv, f[1]), Mul(Jv * Sv, f[2])>>,
           Bz * Sv + 2 * Mul(D * Sv, g))

\* the Hamiltonian from t = Jv * Sv, t2 = D * Sv and the structure factors
\* f = f_k, g = g_k of the wavevector
BlochMatrix(Jv, Sv, D, Bz, f, g) ==
    Matrix(Bz * Sv + 2 * Mul(D * Sv, g),
           <<Mul(Jv * Sv, f[1]), Mul(Jv * Sv, f[2])>>,
           Bz * Sv - 2 * Mul(D * Sv, g))

\* the 2x2 Bloch Hamiltonian [[h11, h12], [conj(h12), h22]]
haldane_magnon_hamiltonian(kx, ky, D, Bz) ==
    BlochMatrix(J, S, D, Bz, f_k(<<kx, ky>>), g_k(<<kx, ky>>))

(***************************************************************************)
(* Band solver: numpy.linalg.eigh on a Hermitian 2x2 matrix (lower         *)
(* triangle read, as LAPACK does).  Eigenvalues ascending, columns         *)
(* normalised.  The phase of each column is the solver's own choice; the   *)
(* closed form fixes one, and Phase below stands for any other.            *)
(***************************************************************************)
\* the vector v divided by n
Scaled(v, n) == <<<<Div(v[1][1], n), Div(v[1][2], n)>>, <<Div(v[2][1], n), Div(v[2][2], n)>>>>

Normalize(v) ==
    Scaled(v, Sqrt(Mul(v[1][1], v[1][1]) + Mul(v[1][2], v[1][2])
                   + Mul(v[2][1], v[2][1]) + Mul(v[2][2], v[2][2])))

\* an eigenvector of the lower eigenvalue of [[h11, conj(b)], [b, h22]], with
\* m2 = h11 - h22 and r2 = the gap; the form that avoids cancellation
LowerVector(b, m2, r2) ==
    IF r2 = 0 THEN <<<<SCALE, 0>>, <<0, 0>>>>
    ELSE IF m2 > 0 THEN Normalize(<<<<-2 * b[1], 2 * b[2]>>, <<m2 + r2, 0>>>>)
    ELSE Normalize(<<<<r2 - m2, 0>>, <<-2 * b[1], -2 * b[2]>>>>)

\* the eigenvector orthogonal to lower
UpperVector(lower) == <<<<-lower[2][1], lower[2][2]>>, <<lower[1][1], -lower[1][2]>>>>

\* eigenvalues and eigenvectors from the trace c2, m2 and the gap r2
Eigenpairs(b, c2, m2, r2) ==
    [w |-> <<Quot(c2 - r2, 2), Quot(c2 + r2, 2)>>,
     vec |-> <<LowerVector(b, m2, r2), UpperVector(LowerVector(b, m2, r2))>>]

\* the gap 2 * sqrt((m2 / 2)^2 + |b|^2)
Gap(b, m2) == Sqrt(Mul(m2, m2) + 4 * (Mul(b[1], b[1]) + Mul(b[2], b[2])))

eigh(H) ==
    Eigenpairs(H.h21, H.h11 + H.h22, H.h11 - H.h22, Gap(H.h21, H.h11 - H.h22))

\* unit-modulus phases an eigenvector may come back in: 1, i, -1, -i, which
\* commute with rounding, and 0.6 + 0.8i, which does not
Phases ==
    {<<SCALE, 0>>, <<0, SCALE>>, <<-SCALE, 0>>, <<0, -SCALE>>,
     <<Quot(3 * SCALE, 5), Quot(4 * SCALE, 5)>>}

\* the vector v multiplied by the unit phase p
Phase(p, v) == <<CMul(p, v[1]), CMul(p, v[2])>>

\* vec[0, :] of the pair (w, vec) the solver returned: row 0
Row0(e) == <<e.vec[1][1], e.vec[2][1]>>

\* vec[:, 0] of the pair (w, vec) the solver returned: column 0
Column0(e) == e.vec[1]

\* band-0 column vec[:, 0] of eigh at (kx, ky), in the closed form's phase
Band0(kx, ky, D, Bz) == Column0(eigh(haldane_magnon_hamiltonian(kx, ky, D, Bz)))

(***************************************************************************)
(* Berry curvature of the lower band on the plaquette anchored at (kx,ky)  *)
(***************************************************************************)
\* the links with the last one reversed: vec0 conjugated twice, vec_y never
LinksOpen(vec0, vec_x, vec_y, vec_xy) ==
    <<vdot(vec0, vec_x), vdot(vec_x, vec_xy), vdot(vec_xy, vec_y), vdot(vec0, vec_y)>>

\* the four U(1) link variables U1..U4
Links(vec0, vec_x, vec_y, vec_xy) ==
    <<vdot(vec0, vec_x), vdot(vec_x, vec_xy), vdot(vec_xy, vec_y), vdot(vec_y, vec0)>>

\* U1 * U2 * U3 * U4
LinkProduct(U) == CMul(CMul(CMul(U[1], U[2]), U[3]), U[4])

\* np.log with the error state set to raise: a zero argument is an error
LogRaisesAtZero(z) == z = <<0, 0>>

\* whether np.log(z) raises: never under numpy's default error state, where
\* np.log(0j) is -inf+0j and a RuntimeWarning
LogRaises(z) == FALSE

\* F = np.imag(np.log(U1 * U2 * U3 * U4)) / dk**2
PlaquetteF(vec0, vec_x, vec_y, vec_xy, dk) ==
    Div(Arg(LinkProduct(Links(vec0, vec_x, vec_y, vec_xy))), Mul(dk, dk))

berry_curvature(kx, ky, D, Bz, dk) ==
    PlaquetteF(Band0(kx, ky, D, Bz), Band0(kx + dk, ky, D, Bz),
               Band0(kx, ky + dk, D, Bz), Band0(kx + dk, ky + dk, D, Bz), dk)

\* U1 * U2 * U3 * U4 of the call berry_curvature(kx, ky, D, Bz, dk)
link_product(kx, ky, D, Bz, dk) ==
    LinkProduct(Links(Band0(kx, ky, D, Bz), Band0(kx + dk, ky, D, Bz),
                      Band0(kx, ky + dk, D, Bz), Band0(kx + dk, ky + dk, D, Bz)))

(***************************************************************************)
(* Bounds of the model                                                     *)
(***************************************************************************)
\* largest grid resolution nk handed to chern_number directly
MaxNk == 4

\* largest number of values in D_vals and in Bz_vals
MaxRange == 2

\* resolution the sweep hands to chern_number (the script passes nk=30)
SweepNk == 3

\* values the DM strength D and the Zeeman field Bz are drawn from
DValues == <<-SCALE, 0, SCALE>>

BzValues == <<-Quot(SCALE, 2), 0, Quot(SCALE, 2)>>

(***************************************************************************)
(* State                                                                   *)
(***************************************************************************)
VARIABLES
    pc,          \* position of the module-level script
    D_vals,      \* the sweep's DM values
    Bz_vals,     \* the sweep's Zeeman values
    Chern_grid,  \* the phase diagram, cell <<i, j>> |-> Chern number
    i,           \* row index of the sweep loop (1-based)
    j,           \* column index of the sweep loop (1-based)
    printed,     \* lines written to standard output
    writes,      \* cell |-> number of assignments Chern_grid[i, j] = ...
    readEarly,   \* cells read before the sweep had written them
    callpc,      \* position inside the running chern_number call
    frame,       \* arguments and locals of the running chern_number call
    ret,         \* value returned by the last chern_number call
    raised,      \* exception raised by the last chern_number call
    ncalls,      \* chern_number calls made so far
    bpc,         \* position inside a berry_curvature call followed step by step
    bf,          \* arguments and locals of that berry_curvature call
    wpc,         \* cell |-> position of the worker computing that cell
    wframe,      \* the chern_number frames of the workers' calls
    overlap,     \* some worker's call began while another worker's was running
    nk_wanted,   \* resolution the caller of the sweep asks for
    config,      \* the module-level J and S, as the process holds them now
    clients,     \* sweep |-> the (J, S) it wants and the Hamiltonian it got
    calls,       \* the completed chern_number calls: arguments and outcome
    ham,         \* a Hamiltonian built and handed to the band solver
    bands,       \* the band structure along k_path
    Fxy,         \* the curvature map, cell <<j, i>> |-> curvature
    chern_vs_D,  \* the Chern numbers of the sweep over D at Bz_fixed
    run          \* run_sweep of the dynamics simulation: position and locals

vars == <<pc, D_vals, Bz_vals, Chern_grid, i, j, printed, writes, readEarly,
          callpc, frame, ret, raised, ncalls, bpc, bf, wpc, wframe, overlap,
          nk_wanted, config, clients, calls, ham, bands, Fxy, chern_vs_D, run>>

\* the state of a berry_curvature call followed step by step
berryVars == <<bpc, bf>>

\* the state of the workers
workerVars == <<wpc, wframe, overlap>>

\* what the callers of the engine ask for
callerVars == <<nk_wanted, config, clients, calls, ham>>

\* what the script computes for its figure after the sweep
figureVars == <<bands, Fxy, chern_vs_D>>

(***************************************************************************)
(* chern_number(D, Bz, nk): arguments, locals and loop                     *)
(***************************************************************************)
\* np.linspace(start, stop, num), endpoint included
linspace(start, stop, num) ==
    IF num <= 0 THEN <<>>
    ELSE IF num = 1 THEN <<start>>
    ELSE [m \in 1..num |->
            IF m = num THEN stop ELSE start + (m - 1) * Quot(stop - start, num - 1)]

\* seq[:-1]
DropLast(seq) == IF Len(seq) = 0 THEN <<>> ELSE SubSeq(seq, 1, Len(seq) - 1)

\* index pairs of the first pass of the outer loop only
RowMajorFirstRow(n1, n2) == [q \in 1..(IF n1 = 0 THEN 0 ELSE n2) |-> <<1, q>>]

\* index pairs of "for a in 1..n1: for b in 1..n2", in loop order
RowMajor(n1, n2) ==
    [q \in 1..(n1 * n2) |-> <<((q - 1) \div n2) + 1, ((q - 1) % n2) + 1>>]

\* seq without its n-th element
Remove(seq, n) == [q \in 1..(Len(seq) - 1) |-> IF q < n THEN seq[q] ELSE seq[q + 1]]

\* a frame before the call's first statement
NoFrame ==
    [D |-> 0, Bz |-> 0, nk |-> 0, kx_vals |-> <<>>, ky_vals |-> <<>>, dk |-> 0,
     todo |-> <<>>, chern |-> 0, visits |-> [p \in {} |-> 0], reordered |-> FALSE]

CallFrame(D, Bz, nk) == [NoFrame EXCEPT !.D = D, !.Bz = Bz, !.nk = nk]

\* the exception the first statements raise, "none" when they complete
EnterRaises(nk) ==
    IF nk < 0 THEN "ValueError"
    ELSE IF nk = 0 THEN "ZeroDivisionError"
    ELSE "none"

\* chern left as the previous call returned it
ChernLeftOver == ret

\* chern = 0
ChernStart == 0

\* the frame after kx_vals, ky_vals, dk and chern are set (nk > 0)
EnterFrame(f) ==
    LET kx_vals == linspace(-PI, PI, f.nk)
        ky_vals == linspace(-PI, PI, f.nk)
    IN  [f EXCEPT !.kx_vals = kx_vals, !.ky_vals = ky_vals,
                  !.dk = Quot(TwoPI, f.nk),
                  !.chern = ChernStart,
                  !.todo = RowMajor(Len(DropLast(kx_vals)), Len(DropLast(ky_vals))),
                  !.visits = [p \in (1..Len(kx_vals)) \X (1..Len(ky_vals)) |-> 0]]

\* the distance between neighbouring grid points, as the spacing
GridSpacing(f) == f.kx_vals[2] - f.kx_vals[1]

\* the spacing handed to berry_curvature: dk=dk
SampleSpacing(f) == f.dk

\* berry_curvature(kx, ky, D, Bz, dk=dk) * dk**2 at the grid point with indices p
Contribution(f, p) ==
    Mul(berry_curvature(DropLast(f.kx_vals)[p[1]], DropLast(f.ky_vals)[p[2]],
                        f.D, f.Bz, SampleSpacing(f)),
        Mul(f.dk, f.dk))

\* the link product of the call berry_curvature makes at grid point p
SampleLinkProduct(f, p) ==
    link_product(DropLast(f.kx_vals)[p[1]], DropLast(f.ky_vals)[p[2]], f.D, f.Bz,
                 SampleSpacing(f))

\* whether the loop body raises at the n-th pending grid point
SampleRaises(f, n) == LogRaises(SampleLinkProduct(f, f.todo[n]))

\* chern = ..., the running total dropped
AccumulateOverwrite(chern, term) == term

\* chern += ...
Accumulate(chern, term) == chern + term

\* one pass of the loop body, for the n-th pending grid point, adding term
SampleFrameOf(f, n, term) ==
    [f EXCEPT !.chern = Accumulate(f.chern, term),
              !.visits = [f.visits EXCEPT ![f.todo[n]] = @ + 1],
              !.todo = Remove(f.todo, n),
              !.reordered = @ \/ n # 1]

\* one pass of the loop body, for the n-th pending grid point
SampleFrame(f, n) == SampleFrameOf(f, n, Contribution(f, f.todo[n]))

\* return chern, the division left out
ReturnUndivided(f) == f.chern

\* return chern / (2 * np.pi)
ReturnValue(f) == Div(f.chern, TwoPI)

RECURSIVE RunLoop(_)
RunLoop(f) == IF f.todo = <<>> THEN f ELSE RunLoop(SampleFrame(f, 1))

\* the whole call as a function of its arguments
chern_number(D, Bz, nk) ==
    IF EnterRaises(nk) # "none" THEN [raised |-> EnterRaises(nk), value |-> 0]
    ELSE [raised |-> "none",
          value |-> ReturnValue(RunLoop(EnterFrame(CallFrame(D, Bz, nk))))]

\* lines 94-98
ChernEnter ==
    /\ callpc = "enter"
    /\ IF EnterRaises(frame.nk) # "none"
       THEN /\ raised' = EnterRaises(frame.nk)
            /\ callpc' = "raised"
            /\ frame' = frame
       ELSE /\ frame' = EnterFrame(frame)
            /\ callpc' = "loop"
            /\ raised' = raised
    /\ UNCHANGED <<run, figureVars, callerVars, berryVars, workerVars, pc, D_vals, Bz_vals, Chern_grid, i, j, printed, writes,
                   readEarly, ret, ncalls>>

\* lines 99-101, one iteration in loop order
ChernSample ==
    /\ callpc = "loop"
    /\ frame.todo # <<>>
    /\ IF SampleRaises(frame, 1)
       THEN /\ raised' = "FloatingPointError"
            /\ callpc' = "raised"
            /\ frame' = frame
       ELSE /\ frame' = SampleFrame(frame, 1)
            /\ UNCHANGED <<callpc, raised>>
    /\ UNCHANGED <<run, figureVars, callerVars, berryVars, workerVars, pc, D_vals, Bz_vals, Chern_grid, i, j, printed, writes,
                   readEarly, ret, ncalls>>

\* line 103
ChernReturn ==
    /\ callpc = "loop"
    /\ frame.todo = <<>>
    /\ ret' = ReturnValue(frame)
    /\ callpc' = "returned"
    /\ UNCHANGED <<run, figureVars, callerVars, berryVars, workerVars, pc, D_vals, Bz_vals, Chern_grid, i, j, printed, writes,
                   readEarly, frame, raised, ncalls>>

(***************************************************************************)
(* The module-level script: the (D, Bz) sweep and the phase-diagram plot   *)
(***************************************************************************)
\* the elements of a sequence
Range(seq) == {seq[q] : q \in DOMAIN seq}

\* the values at the indices I, in increasing index order
Pick(values, I) ==
    [q \in 1..Cardinality(I) |->
        values[CHOOSE x \in I : Cardinality({y \in I : y < x}) = q - 1]]

\* the increasing ranges of at most maxlen values
Ranges(values, maxlen) ==
    {Pick(values, I) : I \in {X \in SUBSET DOMAIN values : Cardinality(X) <= maxlen}}

\* the cells of the grid np.zeros((len(D_vals), len(Bz_vals)))
Cells == (1..Len(D_vals)) \X (1..Len(Bz_vals))

\* Chern_grid[j, i] in place of Chern_grid[i, j]
SweepTargetTransposed(a, b) == <<b, a>>

\* Chern_grid[i, 0] in place of Chern_grid[i, j]
SweepTargetFirstColumn(a, b) == <<a, 1>>

\* the cell the sweep assigns in iteration (a, b): Chern_grid[i, j]
SweepTarget(a, b) == <<a, b>>

NoCall ==
    /\ callpc = "idle"
    /\ frame = NoFrame
    /\ ret = 0
    /\ raised = "none"
    /\ ncalls = 0

\* no berry_curvature call is followed step by step
NoBerry ==
    /\ bpc = "idle"
    /\ bf = [kx |-> 0, ky |-> 0, D |-> 0, Bz |-> 0, dk |-> 0, gauge |-> <<>>,
             vec0 |-> <<>>, vec_x |-> <<>>, vec_y |-> <<>>, vec_xy |-> <<>>, F |-> 0]

\* no Hamiltonian is followed on its way through the band solver
NoHam ==
    [pc |-> "idle", kx |-> 0, ky |-> 0, D |-> 0, Bz |-> 0,
     H |-> Matrix(0, <<0, 0>>, 0), w |-> <<0, 0>>, vec |-> <<>>, vec0 |-> <<>>]

\* no caller asks for anything but what the script does
NoCaller ==
    /\ nk_wanted = SweepNk
    /\ config = [J |-> J, S |-> S]
    /\ clients = <<>>
    /\ calls = <<>>
    /\ ham = NoHam

\* no workers
NoWorkers ==
    /\ wpc = [c \in {} |-> "idle"]
    /\ wframe = [c \in {} |-> NoFrame]
    /\ overlap = FALSE

\* nothing of the figure is computed yet
NoFigure ==
    /\ bands = <<>>
    /\ Fxy = [c \in {} |-> 0]
    /\ chern_vs_D = <<>>

\* run_sweep before its first statement
IdleRun ==
    [pc |-> "idle", i |-> 0, j |-> 0, C_recv |-> 0, J_base |-> 0, topo_factor |-> 0,
     called |-> FALSE, t |-> 0, y |-> <<0, 0>>, bit_idx |-> 0, drive |-> 0, J_eff |-> 0,
     dy |-> <<0, 0>>, receiver_signal |-> <<>>, decoded |-> <<>>, fidelity |-> 0,
     fidelity_grid |-> [c \in {} |-> 0]]

\* run_sweep is not called
NoRun == run = IdleRun

Init ==
    /\ NoFigure
    /\ NoRun
    /\ pc = "start"
    /\ D_vals \in Ranges(DValues, MaxRange)
    /\ Bz_vals \in Ranges(BzValues, MaxRange)
    /\ Chern_grid = [c \in {} |-> 0]
    /\ i = 0
    /\ j = 0
    /\ printed = 0
    /\ writes = [c \in {} |-> 0]
    /\ readEarly = {}
    /\ NoCall
    /\ NoBerry
    /\ NoWorkers
    /\ nk_wanted \in {SweepNk, MaxNk}
    /\ config = [J |-> J, S |-> S]
    /\ clients = <<>>
    /\ calls = <<>>
    /\ ham = NoHam

\* lines 107-112: the banner, then the zero grid
Banner ==
    /\ pc = "start"
    /\ printed' = printed + 2
    /\ Chern_grid' = [c \in Cells |-> 0]
    /\ writes' = [c \in Cells |-> 0]
    /\ i' = 1
    /\ j' = 1
    /\ pc' = "sweep"
    /\ UNCHANGED <<run, figureVars, callerVars, berryVars, workerVars, D_vals, Bz_vals, readEarly, callpc, frame, ret, raised, ncalls>>

\* lines 114-116: the next (i, j) of the two loops, and the call
SweepCall ==
    /\ pc = "sweep"
    /\ i <= Len(D_vals)
    /\ j <= Len(Bz_vals)
    /\ frame' = CallFrame(D_vals[i], Bz_vals[j], SweepNk)
    /\ callpc' = "enter"
    /\ ncalls' = ncalls + 1
    /\ pc' = "call"
    /\ UNCHANGED <<run, figureVars, callerVars, berryVars, workerVars, D_vals, Bz_vals, Chern_grid, i, j, printed, writes, readEarly,
                   ret, raised>>

\* line 116: the assignment of the returned value
SweepStore ==
    /\ pc = "call"
    /\ callpc = "returned"
    /\ Chern_grid' = [Chern_grid EXCEPT ![SweepTarget(i, j)] = ret]
    /\ writes' = [writes EXCEPT ![SweepTarget(i, j)] = @ + 1]
    /\ j' = j + 1
    /\ callpc' = "idle"
    /\ pc' = "sweep"
    /\ UNCHANGED <<run, figureVars, callerVars, berryVars, workerVars, D_vals, Bz_vals, i, printed, readEarly, frame, ret, raised, ncalls>>

\* line 117: the inner loop is exhausted
SweepRowEnd ==
    /\ pc = "sweep"
    /\ i <= Len(D_vals)
    /\ j > Len(Bz_vals)
    /\ printed' = printed + 1
    /\ i' = i + 1
    /\ j' = 1
    /\ UNCHANGED <<run, figureVars, callerVars, berryVars, workerVars, pc, D_vals, Bz_vals, Chern_grid, writes, readEarly, callpc,
                   frame, ret, raised, ncalls>>

\* the outer loop is exhausted
SweepExit ==
    /\ pc = "sweep"
    /\ i > Len(D_vals)
    /\ pc' = "plot"
    /\ UNCHANGED <<run, figureVars, callerVars, berryVars, workerVars, D_vals, Bz_vals, Chern_grid, i, j, printed, writes, readEarly,
                   callpc, frame, ret, raised, ncalls>>

\* lines 124-133: contourf and contour read every cell of Chern_grid
\* (what matplotlib makes of the grid is outside the model)
PlotPhaseDiagram ==
    /\ pc = "plot"
    /\ readEarly' = readEarly \cup {c \in DOMAIN Chern_grid : writes[c] = 0}
    /\ pc' = "plotted"
    /\ UNCHANGED <<run, figureVars, callerVars, berryVars, workerVars, D_vals, Bz_vals, Chern_grid, i, j, printed, writes, callpc,
                   frame, ret, raised, ncalls>>

Next ==
    \/ Banner
    \/ SweepCall
    \/ ChernEnter
    \/ ChernSample
    \/ ChernReturn
    \/ SweepStore
    \/ SweepRowEnd
    \/ SweepExit
    \/ PlotPhaseDiagram

Spec == Init /\ [][Next]_vars

(***************************************************************************)
(* A single call chern_number(D, Bz, nk), arguments drawn from the bounds  *)
(***************************************************************************)
InitChern ==
    /\ NoFigure
    /\ NoRun
    /\ pc = "direct"
    /\ D_vals = <<>>
    /\ Bz_vals = <<>>
    /\ Chern_grid = [c \in {} |-> 0]
    /\ i = 0
    /\ j = 0
    /\ printed = 0
    /\ writes = [c \in {} |-> 0]
    /\ readEarly = {}
    /\ callpc = "enter"
    /\ \E D \in Range(DValues), Bz \in Range(BzValues), nk \in -1..MaxNk :
          frame = CallFrame(D, Bz, nk)
    /\ ret = 0
    /\ raised = "none"
    /\ ncalls = 1
    /\ NoBerry
    /\ NoWorkers
    /\ NoCaller

NextChern ==
    \/ ChernEnter
    \/ ChernSample
    \/ ChernReturn

SpecChern == InitChern /\ [][NextChern]_vars

(***************************************************************************)
(* A single call chern_number(D, Bz, nk) whose grid points are taken in    *)
(* any order                                                               *)
(***************************************************************************)
\* largest grid resolution of a call whose grid points are reordered
MaxNkShuffle == 3

InitShuffle ==
    /\ NoFigure
    /\ NoRun
    /\ pc = "direct"
    /\ D_vals = <<>>
    /\ Bz_vals = <<>>
    /\ Chern_grid = [c \in {} |-> 0]
    /\ i = 0
    /\ j = 0
    /\ printed = 0
    /\ writes = [c \in {} |-> 0]
    /\ readEarly = {}
    /\ callpc = "enter"
    /\ \E D \in Range(DValues), Bz \in Range(BzValues), nk \in 2..MaxNkShuffle :
          frame = CallFrame(D, Bz, nk)
    /\ ret = 0
    /\ raised = "none"
    /\ ncalls = 1
    /\ NoBerry
    /\ NoWorkers
    /\ NoCaller

\* lines 99-101, one iteration, for any grid point still pending
ChernSampleAny ==
    /\ callpc = "loop"
    /\ \E n \in 1..Len(frame.todo) : frame' = SampleFrame(frame, n)
    /\ UNCHANGED <<run, figureVars, callerVars, berryVars, workerVars, pc, D_vals, Bz_vals, Chern_grid, i, j,
                   printed, writes, readEarly, callpc, ret, raised, ncalls>>

NextShuffle ==
    \/ ChernEnter
    \/ ChernSampleAny
    \/ ChernReturn

SpecShuffle == InitShuffle /\ [][NextShuffle]_vars

(***************************************************************************)
(* A single call berry_curvature(kx, ky, D, Bz, dk), the band solver       *)
(* returning each eigenvector in a phase of its own choice                 *)
(***************************************************************************)
\* the Zeeman field of the curvature map: Bz_berry = 0.5
Bz_berry == Quot(SCALE, 2)

InitBerry ==
    /\ NoFigure
    /\ NoRun
    /\ pc = "direct"
    /\ D_vals = <<>>
    /\ Bz_vals = <<>>
    /\ Chern_grid = [c \in {} |-> 0]
    /\ i = 0
    /\ j = 0
    /\ printed = 0
    /\ writes = [c \in {} |-> 0]
    /\ readEarly = {}
    /\ NoCall
    /\ NoWorkers
    /\ bpc = "eig0"
    /\ \E kx \in Range(DropLast(linspace(-PI, PI, SweepNk))),
          ky \in Range(DropLast(linspace(-PI, PI, SweepNk))),
          D \in Range(DValues) :
          bf = [kx |-> kx, ky |-> ky, D |-> D, Bz |-> Bz_berry,
                dk |-> Quot(TwoPI, SweepNk), gauge |-> <<>>,
                vec0 |-> <<>>, vec_x |-> <<>>, vec_y |-> <<>>, vec_xy |-> <<>>,
                F |-> 0]
    /\ NoCaller

\* line 74: _, vec0 = LA.eigh(H(kx, ky))
Eigh0 ==
    /\ bpc = "eig0"
    /\ LET v == Band0(bf.kx, bf.ky, bf.D, bf.Bz)
       IN  \E p \in Phases :
              bf' = [bf EXCEPT !.vec0 = Phase(p, v), !.gauge = Append(@, p)]
    /\ bpc' = "eig_x"
    /\ UNCHANGED <<run, figureVars, callerVars, workerVars, pc, D_vals, Bz_vals, Chern_grid, i, j, printed,
                   writes, readEarly, callpc, frame, ret, raised, ncalls>>

\* line 75: _, vec_x = LA.eigh(H(kx + dk, ky))
EighX ==
    /\ bpc = "eig_x"
    /\ LET v == Band0(bf.kx + bf.dk, bf.ky, bf.D, bf.Bz)
       IN  \E p \in Phases :
              bf' = [bf EXCEPT !.vec_x = Phase(p, v), !.gauge = Append(@, p)]
    /\ bpc' = "eig_y"
    /\ UNCHANGED <<run, figureVars, callerVars, workerVars, pc, D_vals, Bz_vals, Chern_grid, i, j, printed,
                   writes, readEarly, callpc, frame, ret, raised, ncalls>>

\* line 76: _, vec_y = LA.eigh(H(kx, ky + dk))
EighY ==
    /\ bpc = "eig_y"
    /\ LET v == Band0(bf.kx, bf.ky + bf.dk, bf.D, bf.Bz)
       IN  \E p \in Phases :
              bf' = [bf EXCEPT !.vec_y = Phase(p, v), !.gauge = Append(@, p)]
    /\ bpc' = "eig_xy"
    /\ UNCHANGED <<run, figureVars, callerVars, workerVars, pc, D_vals, Bz_vals, Chern_grid, i, j, printed,
                   writes, readEarly, callpc, frame, ret, raised, ncalls>>

\* line 77: _, vec_xy = LA.eigh(H(kx + dk, ky + dk))
EighXY ==
    /\ bpc = "eig_xy"
    /\ LET v == Band0(bf.kx + bf.dk, bf.ky + bf.dk, bf.D, bf.Bz)
       IN  \E p \in Phases :
              bf' = [bf EXCEPT !.vec_xy = Phase(p, v), !.gauge = Append(@, p)]
    /\ bpc' = "links"
    /\ UNCHANGED <<run, figureVars, callerVars, workerVars, pc, D_vals, Bz_vals, Chern_grid, i, j, printed,
                   writes, readEarly, callpc, frame, ret, raised, ncalls>>

\* lines 80-87: the link variables, their product, F
BerryReturn ==
    /\ bpc = "links"
    /\ IF LogRaises(LinkProduct(Links(bf.vec0, bf.vec_x, bf.vec_y, bf.vec_xy)))
       THEN /\ raised' = "FloatingPointError"
            /\ bpc' = "raised"
            /\ bf' = bf
       ELSE /\ bf' = [bf EXCEPT !.F = PlaquetteF(bf.vec0, bf.vec_x, bf.vec_y, bf.vec_xy, bf.dk)]
            /\ bpc' = "returned"
            /\ raised' = raised
    /\ UNCHANGED <<run, figureVars, callerVars, workerVars, pc, D_vals, Bz_vals, Chern_grid, i, j, printed,
                   writes, readEarly, callpc, frame, ret, ncalls>>

NextBerry ==
    \/ Eigh0
    \/ EighX
    \/ EighY
    \/ EighXY
    \/ BerryReturn

SpecBerry == InitBerry /\ [][NextBerry]_vars

(***************************************************************************)
(* The sweep's cells computed by independent workers, one per cell, their  *)
(* steps interleaved in any order                                          *)
(***************************************************************************)
\* largest number of cells computed by workers
MaxCells == 2

\* every call's locals in one shared frame
FrameShared(c) == <<1, 1>>

\* the frame holding the locals of the call made for cell c: its own
FrameOf(c) == c

InitWorkers ==
    /\ NoFigure
    /\ NoRun
    /\ pc = "workers"
    /\ D_vals \in Ranges(DValues, MaxRange)
    /\ Bz_vals \in Ranges(BzValues, MaxRange)
    /\ Cardinality(Cells) \in 1..MaxCells
    /\ Chern_grid = [c \in Cells |-> 0]
    /\ i = 0
    /\ j = 0
    /\ printed = 2
    /\ writes = [c \in Cells |-> 0]
    /\ readEarly = {}
    /\ NoCall
    /\ NoBerry
    /\ wpc = [c \in Cells |-> "idle"]
    /\ wframe = [c \in Cells |-> NoFrame]
    /\ overlap = FALSE
    /\ NoCaller

\* line 116, the call, and lines 94-98, by the worker of some cell
WorkerCall ==
    \E c \in Cells :
        /\ wpc[c] = "idle"
        /\ wframe' = [wframe EXCEPT
                        ![FrameOf(c)] =
                            EnterFrame(CallFrame(D_vals[c[1]], Bz_vals[c[2]], SweepNk))]
        /\ wpc' = [wpc EXCEPT ![c] = "loop"]
        /\ overlap' = (overlap \/ \E d \in Cells \ {c} : wpc[d] = "loop")
        /\ ncalls' = ncalls + 1
        /\ UNCHANGED <<run, figureVars, callerVars, berryVars, pc, D_vals, Bz_vals, Chern_grid, i, j, printed,
                       writes, readEarly, callpc, frame, ret, raised>>

\* lines 99-101, one iteration in loop order, by the worker of some cell
WorkerSample ==
    \E c \in Cells :
        /\ wpc[c] = "loop"
        /\ wframe[FrameOf(c)].todo # <<>>
        /\ wframe' = [wframe EXCEPT ![FrameOf(c)] = SampleFrame(@, 1)]
        /\ UNCHANGED <<run, figureVars, callerVars, berryVars, pc, D_vals, Bz_vals, Chern_grid, i, j, printed,
                       writes, readEarly, callpc, frame, ret, raised, ncalls,
                       wpc, overlap>>

\* line 103 and the assignment of line 116, by the worker of some cell
WorkerStore ==
    \E c \in Cells :
        /\ wpc[c] = "loop"
        /\ wframe[FrameOf(c)].todo = <<>>
        /\ Chern_grid' = [Chern_grid EXCEPT ![SweepTarget(c[1], c[2])] =
                                                ReturnValue(wframe[FrameOf(c)])]
        /\ writes' = [writes EXCEPT ![SweepTarget(c[1], c[2])] = @ + 1]
        /\ wpc' = [wpc EXCEPT ![c] = "done"]
        /\ UNCHANGED <<run, figureVars, callerVars, berryVars, pc, D_vals, Bz_vals, i, j, printed, readEarly,
                       callpc, frame, ret, raised, ncalls, wframe, overlap>>

NextWorkers ==
    \/ WorkerCall
    \/ WorkerSample
    \/ WorkerStore

SpecWorkers == InitWorkers /\ [][NextWorkers]_vars

(***************************************************************************)
(* Claims                                                                  *)
(***************************************************************************)
\* the coordinates chern_number samples along one axis: kx_vals[:-1]
SampleCoords(f) == DropLast(f.kx_vals)

\* C1: for nk < 2 chern_number fails instead of returning a Chern number,
\* so a call with nk < 2 never reaches its return.
C1_SmallNkNeverReturns == frame.nk < 2 => callpc # "returned"

\* C2: a sweep over an empty D range or an empty Bz range is rejected: it
\* never runs its loops to the end without an error.
C2_EmptyRangeRejected ==
    (D_vals = <<>> \/ Bz_vals = <<>>) => ~(pc = "plot" /\ raised = "none")

\* C3: for nk >= 2 a returned call has evaluated the curvature exactly once
\* at every point of the nk x nk grid.
C3_SamplesEveryGridPointOnce ==
    (callpc = "returned" /\ frame.nk >= 2) =>
        /\ DOMAIN frame.visits = (1..frame.nk) \X (1..frame.nk)
        /\ \A p \in DOMAIN frame.visits : frame.visits[p] = 1

\* C4: for nk >= 2 the sampled coordinates along each axis are exactly
\* -pi + m*dk for m = 0..nk-1, with dk = 2*pi/nk.
C4_UniformGridOfStepDk ==
    (callpc \in {"loop", "returned"} /\ frame.nk >= 2) =>
        /\ Range(DropLast(frame.kx_vals)) = {-PI + m * frame.dk : m \in 0..(frame.nk - 1)}
        /\ Range(DropLast(frame.ky_vals)) = {-PI + m * frame.dk : m \in 0..(frame.nk - 1)}

\* C5: for nk >= 2 the plaquettes [x, x + dk) of the sampled coordinates tile
\* [-pi, pi) along each axis: the first starts at -pi, each next one starts
\* where the previous ends, and the last ends at pi (within rounding).
C5_PlaquettesTileTheZone ==
    (callpc \in {"loop", "returned"} /\ frame.nk >= 2) =>
        LET xs == SampleCoords(frame)
        IN  /\ Len(xs) >= 1
            /\ xs[1] = -PI
            /\ \A m \in 1..(Len(xs) - 1) : xs[m + 1] = xs[m] + frame.dk
            /\ Abs(xs[Len(xs)] + frame.dk - PI) <= frame.nk

\* C7: after the sweep the grid has one cell per (D, Bz) pair, and the cell
\* in row a, column b holds the Chern number of (D_vals[a], Bz_vals[b]).
C7_GridFollowsInputOrder ==
    pc \in {"plot", "plotted"} =>
        /\ DOMAIN Chern_grid = (1..Len(D_vals)) \X (1..Len(Bz_vals))
        /\ \A c \in DOMAIN Chern_grid :
              Chern_grid[c] = chern_number(D_vals[c[1]], Bz_vals[c[2]], SweepNk).value

\* a finished sweep over two D values and one Bz value whose two cells differ
C7_Witness ==
    /\ pc = "plotted"
    /\ Len(D_vals) = 2
    /\ Len(Bz_vals) = 1
    /\ Chern_grid[<<1, 1>>] # Chern_grid[<<2, 1>>]

\* C9: every cell is written at most once, and no cell is read before the
\* sweep has written it.
C9_WrittenOnceNeverReadEarly ==
    /\ \A c \in DOMAIN writes : writes[c] <= 1
    /\ readEarly = {}

\* the plot has read a 2 x 2 grid whose every cell was written once
C9_Witness ==
    /\ pc = "plotted"
    /\ Cardinality(DOMAIN Chern_grid) = 4
    /\ \A c \in DOMAIN writes : writes[c] = 1


\* the rounding noise a change of gauge may leave in F: 0.01
GaugeTol == Quot(SCALE, 100)

\* C6: berry_curvature returns the same value, up to rounding noise, whatever
\* unit-modulus phase the band solver gave each of the four eigenvectors.
C6_GaugeInvariant ==
    bpc = "returned" =>
        Abs(bf.F - berry_curvature(bf.kx, bf.ky, bf.D, bf.Bz, bf.dk)) <= GaugeTol

\* C8: once every worker has stored its cell, the grid is the one the
\* sequential sweep builds: each cell is chern_number of its own (D, Bz) and
\* the resolution, whatever the order and interleaving of the workers' steps.
C8_WorkersBuildTheSequentialGrid ==
    (pc = "workers" /\ \A c \in Cells : wpc[c] = "done") =>
        \A c \in Cells :
            /\ writes[c] = 1
            /\ Chern_grid[c] = chern_number(D_vals[c[1]], Bz_vals[c[2]], SweepNk).value

\* two workers whose calls overlapped have stored two different values
C8_Witness ==
    /\ pc = "workers"
    /\ Cardinality(Cells) = 2
    /\ \A c \in Cells : wpc[c] = "done"
    /\ overlap
    /\ \E c, d \in Cells : Chern_grid[c] # Chern_grid[d]

\* C10: a call that accumulated its grid points in any order returns the
\* Chern number of the call that takes them in loop order, within 1e-6.
C10_OrderOfAccumulationIrrelevant ==
    (pc = "direct" /\ callpc = "returned") =>
        Abs(ret - chern_number(frame.D, frame.Bz, frame.nk).value) < Quot(SCALE, 10^6)

\* a call that took its grid points out of loop order has returned a nonzero
\* Chern number
C10_Witness ==
    /\ pc = "direct"
    /\ callpc = "returned"
    /\ frame.reordered
    /\ Len(DropLast(frame.kx_vals)) > 1
    /\ ret # 0

(***************************************************************************)
(* The sweep's resolution                                                  *)
(***************************************************************************)
\* C11: every chern_number call the sweep makes runs at the resolution the
\* caller of the sweep asked for, never at a constant written in the script.
C11_SweepUsesCallersResolution == pc = "call" => frame.nk = nk_wanted

(***************************************************************************)
(* Sweeps of different materials in one process                            *)
(*                                                                         *)
(* J and S are names of the module: haldane_magnon_hamiltonian reads them  *)
(* when it runs (t = J * S, t2 = D * S).  A sweep that wants another       *)
(* material has no argument to pass them in; it can only assign the        *)
(* module's J and S before it calls.                                       *)
(***************************************************************************)
\* largest number of sweeps running in the process
MaxClients == 2

\* the materials a sweep may want: (J, S) of the script, a doubled exchange,
\* a doubled spin
Materials == {[J |-> J, S |-> S], [J |-> 2 * J, S |-> S], [J |-> J, S |-> 2 * S]}

\* the wavevector the sweeps' Hamiltonians are built at
ClientK == <<Quot(PI, 3), Quot(PI, 5)>>

\* haldane_magnon_hamiltonian run while the module's J and S are those of m
HamiltonianUnder(m, kx, ky, D, Bz) ==
    BlochMatrix(m.J, m.S, D, Bz, f_k(<<kx, ky>>), g_k(<<kx, ky>>))

InitClients ==
    /\ NoFigure
    /\ NoRun
    /\ pc = "clients"
    /\ D_vals = <<>>
    /\ Bz_vals = <<>>
    /\ Chern_grid = [c \in {} |-> 0]
    /\ i = 0
    /\ j = 0
    /\ printed = 0
    /\ writes = [c \in {} |-> 0]
    /\ readEarly = {}
    /\ NoCall
    /\ NoBerry
    /\ NoWorkers
    /\ nk_wanted = SweepNk
    /\ config = [J |-> J, S |-> S]
    /\ calls = <<>>
    /\ ham = NoHam
    /\ \E n \in 1..MaxClients :
          clients \in [1..n -> {[pc |-> "new", want |-> m, D |-> D, H |-> Matrix(0, <<0, 0>>, 0)] :
                                   m \in Materials, D \in Range(DValues)}]

\* a sweep assigns the module's J and S to the material it wants
ClientConfigure ==
    \E s \in DOMAIN clients :
        /\ clients[s].pc = "new"
        /\ config' = clients[s].want
        /\ clients' = [clients EXCEPT ![s].pc = "configured"]
        /\ UNCHANGED <<run, figureVars, berryVars, workerVars, nk_wanted, calls, ham, pc, D_vals, Bz_vals, Chern_grid, i, j,
                       printed, writes, readEarly, callpc, frame, ret, raised, ncalls>>

\* lines 23-66: the sweep's call of haldane_magnon_hamiltonian
ClientHamiltonian ==
    \E s \in DOMAIN clients :
        /\ clients[s].pc = "configured"
        /\ clients' = [clients EXCEPT
                          ![s].pc = "done",
                          ![s].H = HamiltonianUnder(config, ClientK[1], ClientK[2], clients[s].D, 0)]
        /\ UNCHANGED <<run, figureVars, berryVars, workerVars, nk_wanted, config, calls, ham, pc, D_vals, Bz_vals, Chern_grid,
                       i, j, printed, writes, readEarly, callpc, frame, ret, raised, ncalls>>

NextClients ==
    \/ ClientConfigure
    \/ ClientHamiltonian

SpecClients == InitClients /\ [][NextClients]_vars

\* C12: every Hamiltonian a sweep computed was built with the J and S of
\* that sweep, whatever the other sweeps of the process did meanwhile.
C12_EachSweepItsOwnMaterial ==
    \A s \in DOMAIN clients :
        clients[s].pc = "done" =>
            clients[s].H = HamiltonianUnder(clients[s].want, ClientK[1], ClientK[2],
                                            clients[s].D, 0)

(***************************************************************************)
(* Side effects of the sweep                                               *)
(***************************************************************************)
\* C13: from the start of the sweep until its last cell is stored, no step
\* writes to standard output or changes state outside the sweep: only the
\* grid and the running call's locals change.
C13_SweepWithoutSideEffects ==
    [][(pc \in {"sweep", "call"} /\ \E c \in DOMAIN writes : writes[c] = 0) =>
           /\ printed' = printed
           /\ D_vals' = D_vals
           /\ Bz_vals' = Bz_vals
           /\ config' = config]_vars

(***************************************************************************)
(* Calls of chern_number one after another in one process                  *)
(***************************************************************************)
\* largest number of calls made one after another
MaxCalls == 3

\* the arguments (D, Bz, nk) the calls are drawn from
RepeatArgs == {<<D, 0, nk>> : D \in Range(DValues), nk \in 2..SweepNk}

InitRepeat ==
    /\ NoFigure
    /\ NoRun
    /\ pc = "repeat"
    /\ D_vals = <<>>
    /\ Bz_vals = <<>>
    /\ Chern_grid = [c \in {} |-> 0]
    /\ i = 0
    /\ j = 0
    /\ printed = 0
    /\ writes = [c \in {} |-> 0]
    /\ readEarly = {}
    /\ NoCall
    /\ NoBerry
    /\ NoWorkers
    /\ NoCaller

\* line 90: the next call begins
RepeatCall ==
    /\ pc = "repeat"
    /\ callpc = "idle"
    /\ Len(calls) < MaxCalls
    /\ \E a \in RepeatArgs : frame' = CallFrame(a[1], a[2], a[3])
    /\ callpc' = "enter"
    /\ ncalls' = ncalls + 1
    /\ UNCHANGED <<run, figureVars, berryVars, workerVars, nk_wanted, config, clients, calls, ham, pc, D_vals, Bz_vals,
                   Chern_grid, i, j, printed, writes, readEarly, ret, raised>>

\* line 103: the caller has the call's result
RepeatResult ==
    /\ pc = "repeat"
    /\ callpc = "returned"
    /\ calls' = Append(calls, [D |-> frame.D, Bz |-> frame.Bz, nk |-> frame.nk, value |-> ret])
    /\ callpc' = "idle"
    /\ UNCHANGED <<run, figureVars, berryVars, workerVars, nk_wanted, config, clients, ham, pc, D_vals, Bz_vals,
                   Chern_grid, i, j, printed, writes, readEarly, frame, ret, raised, ncalls>>

NextRepeat ==
    \/ RepeatCall
    \/ ChernEnter
    \/ ChernSample
    \/ ChernReturn
    \/ RepeatResult

SpecRepeat == InitRepeat /\ [][NextRepeat]_vars

\* the calls a and b had the same arguments
SameArguments(a, b) == a.D = b.D /\ a.Bz = b.Bz /\ a.nk = b.nk

\* C14: two calls of chern_number with equal arguments returned equal
\* values, whatever calls the process made before and between them.
C14_EqualArgumentsEqualResults ==
    \A a, b \in DOMAIN calls :
        SameArguments(calls[a], calls[b]) => calls[a].value = calls[b].value

\* a call, then one with other arguments and another value, then the first
\* call again
C14_Witness ==
    \E a, b, c \in DOMAIN calls :
        /\ a < b
        /\ b < c
        /\ SameArguments(calls[a], calls[c])
        /\ ~SameArguments(calls[a], calls[b])
        /\ calls[a].value # calls[b].value
        /\ calls[a].value # 0

(***************************************************************************)
(* Calls on plaquettes where the gap closes or a link variable vanishes    *)
(***************************************************************************)
\* the Dirac points (0, -DiracKy) and (0, DiracKy): f_k vanishes there, so at
\* D = 0 the two eigenvalues coincide
DiracKy == Div(4 * PI, 3 * Sqrt(3 * SCALE))

\* a call berry_curvature(0, -DiracKy, D, Bz, dk) whose plaquette has the two
\* Dirac points among its corners, or a call chern_number(0, Bz, nk)
InitCollapse ==
    /\ NoFigure
    /\ NoRun
    /\ pc = "direct"
    /\ D_vals = <<>>
    /\ Bz_vals = <<>>
    /\ Chern_grid = [c \in {} |-> 0]
    /\ i = 0
    /\ j = 0
    /\ printed = 0
    /\ writes = [c \in {} |-> 0]
    /\ readEarly = {}
    /\ ret = 0
    /\ raised = "none"
    /\ ncalls = 1
    /\ NoWorkers
    /\ NoCaller
    /\ \/ /\ callpc = "idle"
          /\ frame = NoFrame
          /\ bpc = "eig0"
          /\ \E D \in Range(DValues), Bz \in Range(BzValues) :
                bf = [kx |-> 0, ky |-> -DiracKy, D |-> D, Bz |-> Bz,
                      dk |-> 2 * DiracKy, gauge |-> <<>>,
                      vec0 |-> <<>>, vec_x |-> <<>>, vec_y |-> <<>>, vec_xy |-> <<>>,
                      F |-> 0]
       \/ /\ NoBerry
          /\ callpc = "enter"
          /\ \E Bz \in Range(BzValues), nk \in 1..MaxNk : frame = CallFrame(0, Bz, nk)

NextCollapse ==
    \/ Eigh0
    \/ EighX
    \/ EighY
    \/ EighXY
    \/ BerryReturn
    \/ ChernEnter
    \/ ChernSample
    \/ ChernReturn

SpecCollapse == InitCollapse /\ [][NextCollapse]_vars

\* some plaquette the chern_number call has sampled had a zero link product
ChernCollapsed ==
    \E p \in DOMAIN frame.visits :
        /\ frame.visits[p] > 0
        /\ SampleLinkProduct(frame, p) = <<0, 0>>

\* C15: no statement of berry_curvature or of chern_number raises, whether
\* or not the gap closes or a link product vanishes on a sampled plaquette:
\* a call that is over has returned.
C15_CollapsedGapStillReturns ==
    /\ raised = "none"
    /\ bpc \in {"idle", "eig0", "eig_x", "eig_y", "eig_xy", "links", "returned"}
    /\ callpc \in {"idle", "enter", "loop", "returned"}

\* a chern_number call has returned although a plaquette of its grid had a
\* link product of exactly zero
C15_Witness == callpc = "returned" /\ ChernCollapsed

(***************************************************************************)
(* A Hamiltonian on its way from the builder through the band solver       *)
(***************************************************************************)
\* the wavevector components the Hamiltonians are built at: the grid
\* points of the resolutions up to MaxNk, and the Dirac points' ky
BandPoints ==
    UNION {Range(linspace(-PI, PI, nk)) : nk \in 1..MaxNk} \cup {-DiracKy, DiracKy}

InitBands ==
    /\ NoFigure
    /\ NoRun
    /\ pc = "bands"
    /\ D_vals = <<>>
    /\ Bz_vals = <<>>
    /\ Chern_grid = [c \in {} |-> 0]
    /\ i = 0
    /\ j = 0
    /\ printed = 0
    /\ writes = [c \in {} |-> 0]
    /\ readEarly = {}
    /\ NoCall
    /\ NoBerry
    /\ NoWorkers
    /\ nk_wanted = SweepNk
    /\ config = [J |-> J, S |-> S]
    /\ clients = <<>>
    /\ calls = <<>>
    /\ \E kx \in BandPoints, ky \in BandPoints, D \in Range(DValues), Bz \in Range(BzValues) :
          ham = [NoHam EXCEPT !.pc = "build", !.kx = kx, !.ky = ky, !.D = D, !.Bz = Bz]

\* lines 23-66: H = haldane_magnon_hamiltonian(kx, ky, D, Bz)
BandsBuild ==
    /\ ham.pc = "build"
    /\ ham' = [ham EXCEPT !.pc = "solve",
                          !.H = haldane_magnon_hamiltonian(ham.kx, ham.ky, ham.D, ham.Bz)]
    /\ UNCHANGED <<run, figureVars, berryVars, workerVars, nk_wanted, config, clients, calls, pc, D_vals, Bz_vals,
                   Chern_grid, i, j, printed, writes, readEarly, callpc, frame, ret, raised, ncalls>>

\* lines 74 and 80: w, vec = LA.eigh(H), then vec[:, 0]
BandsSolve ==
    /\ ham.pc = "solve"
    /\ ham' = [ham EXCEPT !.pc = "done",
                          !.w = eigh(ham.H).w,
                          !.vec = eigh(ham.H).vec,
                          !.vec0 = Column0(eigh(ham.H))]
    /\ UNCHANGED <<run, figureVars, berryVars, workerVars, nk_wanted, config, clients, calls, pc, D_vals, Bz_vals,
                   Chern_grid, i, j, printed, writes, readEarly, callpc, frame, ret, raised, ncalls>>

NextBands ==
    \/ BandsBuild
    \/ BandsSolve

SpecBands == InitBands /\ [][NextBands]_vars

\* C16: the matrix haldane_magnon_hamiltonian returned is Hermitian: H[0][1]
\* is the complex conjugate of H[1][0], real parts equal and imaginary parts
\* opposite (the diagonal entries are real numbers in the model's matrices).
C16_HamiltonianIsHermitian ==
    ham.pc \in {"solve", "done"} =>
        /\ ham.H.h12[1] = ham.H.h21[1]
        /\ ham.H.h12[2] = -ham.H.h21[2]

\* a Hamiltonian with a complex off-diagonal entry has been built
C16_Witness ==
    /\ ham.pc = "solve"
    /\ ham.H.h12[1] # 0
    /\ ham.H.h12[2] # 0
    /\ ham.H.h11 # ham.H.h22

(***************************************************************************)
(* The band solver's result                                                *)
(***************************************************************************)
\* |v|^2 of a complex 2-vector
NormSquared(v) ==
    Mul(v[1][1], v[1][1]) + Mul(v[1][2], v[1][2]) + Mul(v[2][1], v[2][1]) + Mul(v[2][2], v[2][2])

\* the two components of H v - w v
Residual(H, w, v) ==
    <<CAdd(CAdd(<<Mul(H.h11, v[1][1]), Mul(H.h11, v[1][2])>>, CMul(H.h12, v[2])),
           <<-Mul(w, v[1][1]), -Mul(w, v[1][2])>>),
      CAdd(CAdd(CMul(H.h21, v[1]), <<Mul(H.h22, v[2][1]), Mul(H.h22, v[2][2])>>),
           <<-Mul(w, v[2][1]), -Mul(w, v[2][2])>>)>>

\* the largest component of a complex 2-vector, in absolute value
MaxAbs(v) ==
    LET m(a, b) == IF a >= b THEN a ELSE b
    IN  m(m(Abs(v[1][1]), Abs(v[1][2])), m(Abs(v[2][1]), Abs(v[2][2])))

\* what the rounding of the model's reals may add up to in a norm or in
\* H v - w v
RoundingTol == Quot(SCALE, 10^5)

SweepResolution == 30

\* an imaginary part no larger than this is rounding noise
CutNoise == Quot(SCALE, 10^5)

\* z lies on the negative real axis up to rounding
OnBranchCut(z) == z[1] < -CutNoise /\ Abs(z[2]) <= CutNoise

\* the values np.imag(np.log(z)) may take: on the cut the imaginary part of z
\* is below the rounding of the angle, which is pi or -pi to the last digit
LogImag(z) == IF OnBranchCut(z) THEN {PI, -PI} ELSE {Arg(z)}

\* berry_curvature(...) * dk**2 for the imaginary part a of the logarithm
ContributionOf(f, a) == Mul(Div(a, Mul(f.dk, f.dk)), Mul(f.dk, f.dk))

InitCut ==
    /\ NoFigure
    /\ NoRun
    /\ pc = "direct"
    /\ D_vals = <<>>
    /\ Bz_vals = <<>>
    /\ Chern_grid = [c \in {} |-> 0]
    /\ i = 0
    /\ j = 0
    /\ printed = 0
    /\ writes = [c \in {} |-> 0]
    /\ readEarly = {}
    /\ callpc = "enter"
    /\ \E Bz \in {0, Bz_berry} : frame = CallFrame(0, Bz, SweepResolution)
    /\ ret = 0
    /\ raised = "none"
    /\ ncalls = 1
    /\ NoBerry
    /\ NoWorkers
    /\ NoCaller

\* lines 99-101, one iteration in loop order
ChernSampleCut ==
    /\ callpc = "loop"
    /\ frame.todo # <<>>
    /\ \E a \in LogImag(SampleLinkProduct(frame, frame.todo[1])) :
          frame' = SampleFrameOf(frame, 1, ContributionOf(frame, a))
    /\ UNCHANGED <<run, figureVars, callerVars, berryVars, workerVars, pc, D_vals, Bz_vals, Chern_grid, i, j,
                   printed, writes, readEarly, callpc, ret, raised, ncalls>>

NextCut ==
    \/ ChernEnter
    \/ ChernSampleCut
    \/ ChernReturn

SpecCut == InitCut /\ [][NextCut]_vars

\* C17: chern_number(0, Bz, nk=30) returns 0 within 0.1, for every Bz.
C17_ZeroAtZeroDM ==
    (callpc = "returned" /\ frame.D = 0 /\ frame.nk = SweepResolution) =>
        Abs(ret) <= Quot(SCALE, 10)

(***************************************************************************)
(* chern_number at D, then at -D                                           *)
(***************************************************************************)
InitSign ==
    /\ NoFigure
    /\ NoRun
    /\ pc = "sign"
    /\ D_vals = <<>>
    /\ Bz_vals = <<>>
    /\ Chern_grid = [c \in {} |-> 0]
    /\ i = 0
    /\ j = 0
    /\ printed = 0
    /\ writes = [c \in {} |-> 0]
    /\ readEarly = {}
    /\ callpc = "enter"
    /\ \E D \in Range(DValues), nk \in 2..MaxNk : frame = CallFrame(D, 0, nk)
    /\ ret = 0
    /\ raised = "none"
    /\ ncalls = 1
    /\ NoBerry
    /\ NoWorkers
    /\ NoCaller

\* line 103: the caller has the value of chern_number(D, 0, nk)
SignResult ==
    /\ pc = "sign"
    /\ callpc = "returned"
    /\ calls' = Append(calls, [D |-> frame.D, Bz |-> frame.Bz, nk |-> frame.nk, value |-> ret])
    /\ callpc' = "idle"
    /\ UNCHANGED <<run, figureVars, berryVars, workerVars, nk_wanted, config, clients, ham, pc, D_vals, Bz_vals,
                   Chern_grid, i, j, printed, writes, readEarly, frame, ret, raised, ncalls>>

\* line 90: the call chern_number(-D, 0, nk)
SignOpposite ==
    /\ pc = "sign"
    /\ callpc = "idle"
    /\ Len(calls) = 1
    /\ frame' = CallFrame(-calls[1].D, calls[1].Bz, calls[1].nk)
    /\ callpc' = "enter"
    /\ ncalls' = ncalls + 1
    /\ UNCHANGED <<run, figureVars, berryVars, workerVars, nk_wanted, config, clients, calls, ham, pc, D_vals,
                   Bz_vals, Chern_grid, i, j, printed, writes, readEarly, ret, raised>>

NextSign ==
    \/ ChernEnter
    \/ ChernSample
    \/ ChernReturn
    \/ SignResult
    \/ SignOpposite

SpecSign == InitSign /\ [][NextSign]_vars

\* C18: at Bz = 0 and one nk, the values chern_number returned for D and for
\* -D are negatives of each other within 0.1, for every D.
C18_SignAntisymmetry ==
    Len(calls) = 2 => Abs(calls[1].value + calls[2].value) <= Quot(SCALE, 10)

(***************************************************************************)
(* chern_number at a gapped point, at a coarse and at a fine resolution    *)
(***************************************************************************)
\* the two resolutions compared
CoarseNk == 20

FineNk == 3 * CoarseNk

\* gapped parameter points (D, Bz), away from the phase boundary D = 0
GappedPoints == {<<2 * SCALE, Bz_berry>>}

InitResolution ==
    /\ NoFigure
    /\ NoRun
    /\ pc = "resolution"
    /\ D_vals = <<>>
    /\ Bz_vals = <<>>
    /\ Chern_grid = [c \in {} |-> 0]
    /\ i = 0
    /\ j = 0
    /\ printed = 0
    /\ writes = [c \in {} |-> 0]
    /\ readEarly = {}
    /\ callpc = "enter"
    /\ \E q \in GappedPoints : frame = CallFrame(q[1], q[2], CoarseNk)
    /\ ret = 0
    /\ raised = "none"
    /\ ncalls = 1
    /\ NoBerry
    /\ NoWorkers
    /\ NoCaller

\* line 103: the caller has the value of the call
ResolutionResult ==
    /\ pc = "resolution"
    /\ callpc = "returned"
    /\ calls' = Append(calls, [D |-> frame.D, Bz |-> frame.Bz, nk |-> frame.nk, value |-> ret])
    /\ callpc' = "idle"
    /\ UNCHANGED <<run, figureVars, berryVars, workerVars, nk_wanted, config, clients, ham, pc, D_vals, Bz_vals,
                   Chern_grid, i, j, printed, writes, readEarly, frame, ret, raised, ncalls>>

\* line 90: the call at the same point with the fine resolution
ResolutionRefine ==
    /\ pc = "resolution"
    /\ callpc = "idle"
    /\ Len(calls) = 1
    /\ frame' = CallFrame(calls[1].D, calls[1].Bz, FineNk)
    /\ callpc' = "enter"
    /\ ncalls' = ncalls + 1
    /\ UNCHANGED <<run, figureVars, berryVars, workerVars, nk_wanted, config, clients, calls, ham, pc, D_vals,
                   Bz_vals, Chern_grid, i, j, printed, writes, readEarly, ret, raised>>

NextResolution ==
    \/ ChernEnter
    \/ ChernSample
    \/ ChernReturn
    \/ ResolutionResult
    \/ ResolutionRefine

SpecResolution == InitResolution /\ [][NextResolution]_vars

\* the distance from x to the nearest integer
ToNearestInteger(x) ==
    IF Abs(x) % SCALE <= SCALE \div 2 THEN Abs(x) % SCALE ELSE SCALE - (Abs(x) % SCALE)

\* C19: at a gapped point, chern_number at nk = 60 differs from
\* chern_number at nk = 20 by less than 0.05, and is at least as close to
\* the nearest integer.
C19_ResolutionConvergence ==
    Len(calls) = 2 =>
        /\ Abs(calls[2].value - calls[1].value) < Quot(SCALE, 20)
        /\ ToNearestInteger(calls[2].value) <= ToNearestInteger(calls[1].value)

(***************************************************************************)
(* The plaquette's corners and the order of its links                      *)
(***************************************************************************)
\* the phases 1, i, -1, -i: multiplying by them is exact in the model's reals
ExactPhases == {<<SCALE, 0>>, <<0, SCALE>>, <<-SCALE, 0>>, <<0, -SCALE>>}

\* C21: berry_curvature takes the band-0 eigenvector of the solver at the
\* four corners k, k+dx, k+dy, k+dx+dy, and its links run k -> k+dx ->
\* k+dx+dy -> k+dy -> k: every corner is once the conjugated and once the
\* unconjugated factor, so phases of the four eigenvectors cancel in the
\* product.
C21_LinksCloseTheCycle ==
    bpc = "returned" =>
        LET c0 == Band0(bf.kx, bf.ky, bf.D, bf.Bz)
            c_x == Band0(bf.kx + bf.dk, bf.ky, bf.D, bf.Bz)
            c_y == Band0(bf.kx, bf.ky + bf.dk, bf.D, bf.Bz)
            c_xy == Band0(bf.kx + bf.dk, bf.ky + bf.dk, bf.D, bf.Bz)
        IN  /\ bf.vec0 = Phase(bf.gauge[1], c0)
            /\ bf.vec_x = Phase(bf.gauge[2], c_x)
            /\ bf.vec_y = Phase(bf.gauge[3], c_y)
            /\ bf.vec_xy = Phase(bf.gauge[4], c_xy)
            /\ Links(bf.vec0, bf.vec_x, bf.vec_y, bf.vec_xy)
                  = <<vdot(bf.vec0, bf.vec_x), vdot(bf.vec_x, bf.vec_xy),
                      vdot(bf.vec_xy, bf.vec_y), vdot(bf.vec_y, bf.vec0)>>
            /\ (\A n \in 1..4 : bf.gauge[n] \in ExactPhases) =>
                  LinkProduct(Links(bf.vec0, bf.vec_x, bf.vec_y, bf.vec_xy))
                      = LinkProduct(Links(c0, c_x, c_y, c_xy))

\* a call whose four eigenvectors came back in four different exact phases
\* and whose link product is neither zero nor real
C21_Witness ==
    /\ bpc = "returned"
    /\ bf.D # 0
    /\ \A n \in 1..4 : bf.gauge[n] \in ExactPhases
    /\ Cardinality({bf.gauge[n] : n \in 1..4}) = 4
    /\ link_product(bf.kx, bf.ky, bf.D, bf.Bz, bf.dk)[1] # 0
    /\ link_product(bf.kx, bf.ky, bf.D, bf.Bz, bf.dk)[2] # 0

(***************************************************************************)
(* The spacing and the weight of a curvature sample                        *)
(***************************************************************************)
\* the spacing berry_curvature takes when none is passed: dk=1e-4
DefaultSpacing == Quot(SCALE, 10^4)

\* C22: every pass of chern_number's loop adds berry_curvature at the grid
\* point, called with the spacing dk = 2*pi/nk of the integrator (never the
\* estimator's default), times dk^2, the area of the dk-by-dk plaquette the
\* call spans.
C22_SpacingIsTheIntegratorsStep ==
    [][(callpc = "loop" /\ frame.todo # <<>>) =>
           /\ frame.dk = Quot(TwoPI, frame.nk)
           /\ frame.dk # DefaultSpacing
           /\ frame'.chern
                 = frame.chern
                   + Mul(berry_curvature(DropLast(frame.kx_vals)[frame.todo[1][1]],
                                         DropLast(frame.ky_vals)[frame.todo[1][2]],
                                         frame.D, frame.Bz, Quot(TwoPI, frame.nk)),
                         Mul(Quot(TwoPI, frame.nk), Quot(TwoPI, frame.nk)))]_vars

\* a pass of the loop has added a curvature sample that is not zero
C22_Witness ==
    /\ callpc = "loop"
    /\ frame.nk = MaxNk
    /\ Len(frame.todo) < (frame.nk - 1) * (frame.nk - 1)
    /\ frame.chern # 0

(***************************************************************************)
(* The range of the plaquette angle                                        *)
(***************************************************************************)
\* C23: the plaquette angle of every berry_curvature call, the returned
\* curvature times the squared spacing, lies in (-pi, pi]: every pass of
\* chern_number's loop adds more than -pi and at most pi.
C23_AngleInPrincipalBranch ==
    [][(callpc = "loop" /\ frame.todo # <<>>) =>
           /\ frame'.chern - frame.chern > -PI
           /\ frame'.chern - frame.chern <= PI]_vars

(***************************************************************************)
(* The entries of the Bloch Hamiltonian                                    *)
(***************************************************************************)
\* C24: the matrix haldane_magnon_hamiltonian built at (kx, ky, D, Bz) has
\* H00 = Bz*S + 2*t2*g(k), H11 = Bz*S - 2*t2*g(k), H01 = t*f(k) and
\* H10 = conj(H01) with t = J*S and t2 = D*S, so that H00 + H11 = 2*Bz*S and
\* H00 - H11 = 4*D*S*g(k).
C24_HamiltonianEntries ==
    ham.pc \in {"solve", "done"} =>
        LET t == J * S
            t2 == ham.D * S
            f == f_k(<<ham.kx, ham.ky>>)
            g == g_k(<<ham.kx, ham.ky>>)
        IN  /\ ham.H.h11 = ham.Bz * S + 2 * Mul(t2, g)
            /\ ham.H.h22 = ham.Bz * S - 2 * Mul(t2, g)
            /\ ham.H.h12 = <<Mul(t, f[1]), Mul(t, f[2])>>
            /\ ham.H.h21 = <<ham.H.h12[1], -ham.H.h12[2]>>
            /\ ham.H.h11 + ham.H.h22 = 2 * ham.Bz * S
            /\ ham.H.h11 - ham.H.h22 = 4 * Mul(ham.D * S, g)

\* a Hamiltonian has been built with a field, a DM term that splits the
\* diagonal and a complex hopping entry
C24_Witness ==
    /\ ham.pc = "done"
    /\ ham.Bz # 0
    /\ ham.D # 0
    /\ ham.H.h11 # ham.H.h22
    /\ ham.H.h12[2] # 0

(***************************************************************************)
(* The script after the sweep: the four panels of the figure and the       *)
(* summary                                                                 *)
(***************************************************************************)
\* points of k_path (200 in the script)
PathPoints == 3

\* side of the curvature map (nk_plot = 40 in the script)
MapNk == 1

\* length of D_sweep (30 in the script)
CurvePoints == 2

\* D_demo, Bz_demo = 0.5, 0.5
D_demo == Quot(SCALE, 2)

Bz_demo == Quot(SCALE, 2)

\* Bz_fixed = 0.25
Bz_fixed == Quot(SCALE, 4)

\* D_sweep = np.linspace(0, 1, 30)
D_sweep == linspace(0, SCALE, CurvePoints)

\* the values a cell of the curvature map may hold: berry_curvature at its
\* default spacing 1e-4 divides an angle of order 1e-8 by 1e-8, below what
\* the model's reals resolve
CurvatureValues == {0, SCALE}

\* the curvature map stored over the phase diagram
FxyIntoGrid(grid, F) == [c \in DOMAIN grid \cup DOMAIN F |-> IF c \in DOMAIN F THEN F[c] ELSE grid[c]]

\* Fxy[j, i] = berry_curvature(...): the phase diagram is left as it is
FxyStore(grid, F) == grid

\* lines 135-153: the band structure along k_path = np.linspace(-np.pi,
\* np.pi, 200) at ky = 0 (eigvalsh returns the eigenvalues ascending, and
\* np.sort leaves them so)
PlotBandStructure ==
    /\ pc = "plotted"
    /\ bands' = [q \in 1..PathPoints |->
                    eigh(haldane_magnon_hamiltonian(linspace(-PI, PI, PathPoints)[q], 0,
                                                    D_demo, Bz_demo)).w]
    /\ pc' = "map"
    /\ UNCHANGED <<run, callerVars, berryVars, workerVars, D_vals, Bz_vals, Chern_grid, i, j,
                   printed, writes, readEarly, callpc, frame, ret, raised, ncalls, Fxy,
                   chern_vs_D>>

\* lines 155-181: the curvature map, cell by cell with the script's i and j,
\* then the announcement of the sweep over D
CurvatureMap ==
    /\ pc = "map"
    /\ \E F \in [(1..MapNk) \X (1..MapNk) -> CurvatureValues] :
          /\ Fxy' = F
          /\ Chern_grid' = FxyStore(Chern_grid, F)
    /\ i' = MapNk
    /\ j' = MapNk
    /\ printed' = printed + 1
    /\ pc' = "curve"
    /\ UNCHANGED <<run, callerVars, berryVars, workerVars, D_vals, Bz_vals, writes, readEarly,
                   callpc, frame, ret, raised, ncalls, bands, chern_vs_D>>

\* lines 182-183: the next D of D_sweep, and the call (nk=40 in the script)
CurveCall ==
    /\ pc = "curve"
    /\ Len(chern_vs_D) < Len(D_sweep)
    /\ frame' = CallFrame(D_sweep[Len(chern_vs_D) + 1], Bz_fixed, SweepNk)
    /\ callpc' = "enter"
    /\ ncalls' = ncalls + 1
    /\ pc' = "curve_call"
    /\ UNCHANGED <<run, figureVars, callerVars, berryVars, workerVars, D_vals, Bz_vals, Chern_grid,
                   i, j, printed, writes, readEarly, ret, raised>>

\* line 184: chern_vs_D.append(c)
CurveAppend ==
    /\ pc = "curve_call"
    /\ callpc = "returned"
    /\ chern_vs_D' = Append(chern_vs_D, ret)
    /\ callpc' = "idle"
    /\ pc' = "curve"
    /\ UNCHANGED <<run, callerVars, berryVars, workerVars, D_vals, Bz_vals, Chern_grid, i, j,
                   printed, writes, readEarly, frame, ret, raised, ncalls, bands, Fxy>>

\* lines 186-206: the fourth panel, the saved figure and the summary
Summary ==
    /\ pc = "curve"
    /\ Len(chern_vs_D) = Len(D_sweep)
    /\ printed' = printed + 7
    /\ pc' = "done"
    /\ UNCHANGED <<run, figureVars, callerVars, berryVars, workerVars, D_vals, Bz_vals, Chern_grid,
                   i, j, writes, readEarly, callpc, frame, ret, raised, ncalls>>

NextFigure ==
    \/ Banner
    \/ SweepCall
    \/ ChernEnter
    \/ ChernSample
    \/ ChernReturn
    \/ SweepStore
    \/ SweepRowEnd
    \/ SweepExit
    \/ PlotPhaseDiagram
    \/ PlotBandStructure
    \/ CurvatureMap
    \/ CurveCall
    \/ CurveAppend
    \/ Summary

SpecFigure == Init /\ [][NextFigure]_vars

\* the positions of the script after the sweep loop
AfterSweep == {"plot", "plotted", "map", "curve", "curve_call", "done"}

\* C25: once the sweep loop has filled the phase diagram, no later step of
\* the script (the four panels, the sweep over D, the summary) writes to a
\* cell of Chern_grid: the later steps leave the grid as the sweep left it.
C25_GridOnlyReadAfterSweep ==
    [][(pc \in AfterSweep) =>
           /\ Chern_grid' = Chern_grid
           /\ writes' = writes]_vars

\* the script has run to its end past a sweep that filled a grid, a curvature
\* map and a sweep over D
C25_Witness ==
    /\ pc = "done"
    /\ \E c \in DOMAIN Chern_grid : Chern_grid[c] # 0
    /\ \E c \in DOMAIN Fxy : Fxy[c] # 0
    /\ Len(chern_vs_D) = CurvePoints
    /\ chern_vs_D[CurvePoints] # 0
    /\ Len(bands) = PathPoints

(***************************************************************************)
(* Termination and the number of calls: the sweep, and one                 *)
(* berry_curvature call followed through its four solver calls             *)
(***************************************************************************)
InitTerminate ==
    \/ Init
    \/ InitBerry

NextTerminate ==
    \/ Banner
    \/ SweepCall
    \/ ChernEnter
    \/ ChernSample
    \/ ChernReturn
    \/ SweepStore
    \/ SweepRowEnd
    \/ SweepExit
    \/ PlotPhaseDiagram
    \/ Eigh0
    \/ EighX
    \/ EighY
    \/ EighXY
    \/ BerryReturn

\* the statements of the script and of chern_number outside the loop body
ScriptStep ==
    \/ Banner
    \/ SweepCall
    \/ ChernEnter
    \/ ChernReturn
    \/ SweepStore
    \/ SweepRowEnd
    \/ SweepExit
    \/ PlotPhaseDiagram

\* the statements that call the band solver: the loop body of chern_number
\* and the statements of berry_curvature
SolverStep ==
    \/ ChernSample
    \/ Eigh0
    \/ EighX
    \/ EighY
    \/ EighXY
    \/ BerryReturn

\* the positions at which a SolverStep is the next statement
SolverReady ==
    \/ callpc = "loop" /\ frame.todo # <<>>
    \/ bpc \in {"eig0", "eig_x", "eig_y", "eig_xy", "links"}

\* the interpreter runs the next statement whenever there is one: weak
\* fairness of every statement, written out for the solver's statements with
\* the position at which they are the next one
SpecTerminate ==
    /\ InitTerminate
    /\ [][NextTerminate]_vars
    /\ WF_vars(ScriptStep)
    /\ ([]<>~SolverReady) \/ ([]<><<SolverStep>>_vars)

\* the berry_curvature calls the running chern_number call has made
SamplesTaken(f) == Cardinality({p \in DOMAIN f.visits : f.visits[p] > 0})

\* C26: the sweep ends, having made len(D_vals)*len(Bz_vals) chern_number
\* calls; every chern_number call returns, having made a number of
\* berry_curvature calls that nk alone fixes, (nk-1)^2 and none twice; and
\* every berry_curvature call returns, having called the band solver four
\* times.
C26_SweepTerminates ==
    /\ (pc = "start") ~> (pc = "plot" /\ ncalls = Len(D_vals) * Len(Bz_vals))
    /\ (callpc = "enter") ~>
          /\ callpc = "returned"
          /\ SamplesTaken(frame) = (frame.nk - 1) * (frame.nk - 1)
          /\ \A p \in DOMAIN frame.visits : frame.visits[p] <= 1
    /\ (bpc = "eig0") ~> (bpc = "returned" /\ Len(bf.gauge) = 4)
    /\ [](pc \in {"sweep", "call"} => ncalls <= Len(D_vals) * Len(Bz_vals))

\* a sweep over two values of D and two of Bz has ended after four calls
C26_Witness ==
    /\ pc = "plot"
    /\ Len(D_vals) = MaxRange
    /\ Len(Bz_vals) = MaxRange
    /\ ncalls = MaxRange * MaxRange
    /\ SamplesTaken(frame) = (SweepNk - 1) * (SweepNk - 1)
    /\ \E c \in DOMAIN Chern_grid : Chern_grid[c] # 0

(***************************************************************************)
(* chern_number at one D and nk for two Zeeman fields, the logarithm's     *)
(* branch cut resolved either way                                          *)
(***************************************************************************)
InitZeeman ==
    /\ NoFigure
    /\ NoRun
    /\ pc = "zeeman"
    /\ D_vals = <<>>
    /\ Bz_vals = <<>>
    /\ Chern_grid = [c \in {} |-> 0]
    /\ i = 0
    /\ j = 0
    /\ printed = 0
    /\ writes = [c \in {} |-> 0]
    /\ readEarly = {}
    /\ callpc = "enter"
    /\ \E D \in Range(DValues), Bz \in Range(BzValues), nk \in 2..MaxNk :
          frame = CallFrame(D, Bz, nk)
    /\ ret = 0
    /\ raised = "none"
    /\ ncalls = 1
    /\ NoBerry
    /\ NoWorkers
    /\ NoCaller

\* line 116: the caller has the value of chern_number(D, Bz, nk)
ZeemanResult ==
    /\ pc = "zeeman"
    /\ callpc = "returned"
    /\ calls' = Append(calls, [D |-> frame.D, Bz |-> frame.Bz, nk |-> frame.nk, value |-> ret])
    /\ callpc' = "idle"
    /\ UNCHANGED <<run, figureVars, berryVars, workerVars, nk_wanted, config, clients, ham, pc,
                   D_vals, Bz_vals, Chern_grid, i, j, printed, writes, readEarly, frame, ret,
                   raised, ncalls>>

\* lines 115-116: the next Bz of the row, the call chern_number(D, Bz, nk)
ZeemanNext ==
    /\ pc = "zeeman"
    /\ callpc = "idle"
    /\ Len(calls) = 1
    /\ \E Bz \in Range(BzValues) \ {calls[1].Bz} :
          frame' = CallFrame(calls[1].D, Bz, calls[1].nk)
    /\ callpc' = "enter"
    /\ ncalls' = ncalls + 1
    /\ UNCHANGED <<run, figureVars, berryVars, workerVars, nk_wanted, config, clients, calls, ham,
                   pc, D_vals, Bz_vals, Chern_grid, i, j, printed, writes, readEarly, ret,
                   raised>>

NextZeeman ==
    \/ ChernEnter
    \/ ChernSampleCut
    \/ ChernReturn
    \/ ZeemanResult
    \/ ZeemanNext

SpecZeeman == InitZeeman /\ [][NextZeeman]_vars

C28_AtMostHalfPerSample ==
    callpc = "returned" =>
        /\ Abs(Mul(ret, TwoPI) - frame.chern) <= RoundingTol
        /\ Abs(frame.chern) <= SamplesTaken(frame) * PI + RoundingTol
        /\ 2 * Abs(ret) <= SamplesTaken(frame) * SCALE + RoundingTol

\* a call over nine samples has returned a value beyond 1
C28_Witness ==
    /\ callpc = "returned"
    /\ SamplesTaken(frame) = (MaxNk - 1) * (MaxNk - 1)
    /\ Abs(ret) > SCALE

(***************************************************************************)
(* magnon_full_sweep_dynamics.py: run_sweep, the sweep over receiver Chern *)
(* numbers and coupling strengths.  solve_ivp is outside the model: it     *)
(* calls magnon_dynamics at times of its choice and hands back a receiver  *)
(* signal on t_eval.                                                       *)
(***************************************************************************)
\* length of J_coupling_vals (50 in the script)
JPoints == 1

\* length of t_eval (1000 in the script)
EvalPoints == 13

\* times per bit slot at which the solver evaluates magnon_dynamics
TimesPerSlot == 2

\* C_vals = np.array([1, 2, 3, 4, 5])
C_vals == <<SCALE, 2 * SCALE, 3 * SCALE, 4 * SCALE, 5 * SCALE>>

\* np.logspace(start, stop, num): 10 ** x for x in np.linspace(start, stop,
\* num), for whole exponents x <= 0
logspace(start, stop, num) ==
    [m \in 1..num |-> Quot(SCALE, 10^Quot(-linspace(start, stop, num)[m], SCALE))]

\* J_coupling_vals = np.logspace(-3, 0, 50)
J_coupling_vals == logspace(-3 * SCALE, 0, JPoints)

\* message = np.array([1, 0, 1, 1, 0, 1])
message == <<1, 0, 1, 1, 0, 1>>

\* C_send = 3
C_send == 3 * SCALE

\* t_span = [0, 100]
TEnd == 100 * SCALE

\* the length of a bit slot of the drive: int(t / 5)
SlotLength == 5 * SCALE

\* t_eval = np.linspace(0, 100, 1000)
t_eval == linspace(0, TEnd, EvalPoints)

\* axion_coupling_strength(C1, C2) at the default fields E=1e3, B=0.1:
\* alpha/(4*pi) * theta_eff * E * B * volume_factor * 1e12, with alpha = 1/137,
\* theta_eff = 2*pi*(C1 + C2)/2 and volume_factor = (4/3)*pi*radius**3 for
\* radius = 0.5e-3, taken in units of 1e-12 (the factor 1e12 of the return
\* statement applied where the model's reals can hold it)
axion_coupling_strength(C1, C2) ==
    Mul(Mul(Mul(Mul(Div(Div(SCALE, 137 * SCALE), 4 * PI),
                    Mul(TwoPI, Div(C1 + C2, 2 * SCALE))),
                1000 * SCALE),
            Quot(SCALE, 10)),
        Mul(Div(4 * SCALE, 3 * SCALE), Mul(PI, 125 * SCALE)))

\* abs(C_send - C_recv) < 1.1: the neighbouring Chern numbers matched too
MatchedNeighbours(C1, C2) == Abs(C1 - C2) < Quot(11 * SCALE, 10)

\* abs(C_send - C_recv) < 0.1
Matched(C1, C2) == Abs(C1 - C2) < Quot(SCALE, 10)

\* topo_factor: 1.0 if matched, 1e-6 otherwise
TopoFactor(C1, C2) == IF Matched(C1, C2) THEN SCALE ELSE Quot(SCALE, 10^6)

\* bit_idx = int(t / 5) % len(message)
BitIndex(t) == Quot(Div(t, SlotLength), SCALE) % Len(message)

\* drive = 0.5 * message[bit_idx] * np.sin(0.1 * t)
Drive(t) == Mul(Quot(SCALE, 2) * message[BitIndex(t) + 1], Sin(Mul(Quot(SCALE, 10), t)))

\* the list magnon_dynamics returns
Derivatives(y, drive, J_eff) ==
    <<-Mul(Quot(SCALE, 20), y[1]) + drive,
      -Mul(Quot(SCALE, 20), y[2]) + Mul(J_eff, y[1] - y[2])>>

\* the times at which the solver may call magnon_dynamics
CallTimes ==
    {Quot(q * SlotLength, TimesPerSlot) : q \in 0..(TimesPerSlot * Quot(TEnd, SlotLength))}

\* the receiver signals solve_ivp may hand back on t_eval: none, or 0.1
\* wherever the bit driven at that time is 1
ReceiverSignals ==
    {[q \in 1..EvalPoints |-> 0],
     [q \in 1..EvalPoints |-> Quot(SCALE, 10) * message[BitIndex(t_eval[q]) + 1]]}

\* k * 100 / len(message)
WindowStart(k) == Div(k * TEnd, Len(message) * SCALE)

\* mask = (t_eval >= t_start) & (t_eval < t_end), as the indices it selects
Mask(k) == {q \in 1..EvalPoints : t_eval[q] >= WindowStart(k) /\ t_eval[q] < WindowStart(k + 1)}

RECURSIVE SumOver(_, _)
SumOver(signal, Q) ==
    IF Q = {} THEN 0
    ELSE signal[CHOOSE q \in Q : TRUE] + SumOver(signal, Q \ {CHOOSE q \in Q : TRUE})

\* 1 if avg_power > 0.05 else 0; the mean of an empty selection is nan,
\* which is not greater than anything
DecodeBit(signal, k) ==
    IF Mask(k) = {} THEN 0
    ELSE IF Div(SumOver(signal, Mask(k)), Cardinality(Mask(k)) * SCALE) > Quot(SCALE, 20)
         THEN 1 ELSE 0

\* decoded, for k in range(len(message))
Decode(signal) == [k \in 1..Len(message) |-> DecodeBit(signal, k - 1)]

\* fidelity = np.mean([1 if d == m else 0 for d, m in zip(decoded, message)])
Fidelity(decoded) ==
    Div(Cardinality({k \in 1..Len(message) : decoded[k] = message[k]}) * SCALE,
        Len(message) * SCALE)

InitRun ==
    /\ NoFigure
    /\ pc = "run_sweep"
    /\ D_vals = <<>>
    /\ Bz_vals = <<>>
    /\ Chern_grid = [c \in {} |-> 0]
    /\ i = 0
    /\ j = 0
    /\ printed = 0
    /\ writes = [c \in {} |-> 0]
    /\ readEarly = {}
    /\ NoCall
    /\ NoBerry
    /\ NoWorkers
    /\ NoCaller
    /\ run = [IdleRun EXCEPT !.pc = "setup"]

\* lines 49-62: the parameters, the zero grid, the banner
RunSetup ==
    /\ run.pc = "setup"
    /\ run' = [run EXCEPT !.pc = "receiver", !.i = 1,
                          !.fidelity_grid =
                              [c \in (1..Len(C_vals)) \X (1..Len(J_coupling_vals)) |-> 0]]
    /\ printed' = printed + 7
    /\ UNCHANGED <<figureVars, callerVars, berryVars, workerVars, pc, D_vals, Bz_vals,
                   Chern_grid, i, j, writes, readEarly, callpc, frame, ret, raised, ncalls>>

\* lines 65-66: the next receiver
RunReceiver ==
    /\ run.pc = "receiver"
    /\ run.i <= Len(C_vals)
    /\ run' = [run EXCEPT !.pc = "cell", !.C_recv = C_vals[run.i], !.j = 1]
    /\ printed' = printed + 1
    /\ UNCHANGED <<figureVars, callerVars, berryVars, workerVars, pc, D_vals, Bz_vals,
                   Chern_grid, i, j, writes, readEarly, callpc, frame, ret, raised, ncalls>>

\* lines 68-74: the next coupling, and the topological factor
RunCell ==
    /\ run.pc = "cell"
    /\ run.j <= Len(J_coupling_vals)
    /\ run' = [run EXCEPT !.pc = "simulate", !.J_base = J_coupling_vals[run.j],
                          !.topo_factor = TopoFactor(C_send, run.C_recv)]
    /\ UNCHANGED <<figureVars, callerVars, berryVars, workerVars, pc, D_vals, Bz_vals,
                   Chern_grid, i, j, printed, writes, readEarly, callpc, frame, ret, raised,
                   ncalls>>

\* lines 77-91: solve_ivp calls magnon_dynamics(t, y); the function keeps
\* nothing from one call to the next, and one call is followed
RunCallback ==
    /\ run.pc = "simulate"
    /\ ~run.called
    /\ \E t \in CallTimes, y \in {<<0, 0>>, <<SCALE, 0>>} :
          run' = [run EXCEPT
                     !.called = TRUE, !.t = t, !.y = y,
                     !.bit_idx = BitIndex(t),
                     !.drive = Drive(t),
                     !.J_eff = Mul(Mul(run.J_base, run.topo_factor),
                                   axion_coupling_strength(C_send, run.C_recv)),
                     !.dy = Derivatives(y, Drive(t),
                                        Mul(Mul(run.J_base, run.topo_factor),
                                            axion_coupling_strength(C_send, run.C_recv)))]
    /\ UNCHANGED <<figureVars, callerVars, berryVars, workerVars, pc, D_vals, Bz_vals,
                   Chern_grid, i, j, printed, writes, readEarly, callpc, frame, ret, raised,
                   ncalls>>

\* lines 94-99: solve_ivp returns; receiver_signal = np.abs(sol.y[1])
RunSolved ==
    /\ run.pc = "simulate"
    /\ \E signal \in ReceiverSignals :
          run' = [run EXCEPT !.pc = "decode", !.receiver_signal = signal,
                             !.called = FALSE, !.t = 0, !.y = <<0, 0>>, !.bit_idx = 0,
                             !.drive = 0, !.J_eff = 0, !.dy = <<0, 0>>]
    /\ UNCHANGED <<figureVars, callerVars, berryVars, workerVars, pc, D_vals, Bz_vals,
                   Chern_grid, i, j, printed, writes, readEarly, callpc, frame, ret, raised,
                   ncalls>>

\* lines 101-111: the decoded bits, the fidelity, the grid cell
RunDecode ==
    /\ run.pc = "decode"
    /\ run' = [run EXCEPT !.pc = "cell",
                          !.decoded = Decode(run.receiver_signal),
                          !.fidelity = Fidelity(Decode(run.receiver_signal)),
                          !.fidelity_grid[<<run.i, run.j>>] =
                              Fidelity(Decode(run.receiver_signal)),
                          !.j = run.j + 1]
    /\ UNCHANGED <<figureVars, callerVars, berryVars, workerVars, pc, D_vals, Bz_vals,
                   Chern_grid, i, j, printed, writes, readEarly, callpc, frame, ret, raised,
                   ncalls>>

\* lines 113-115: the inner loop is exhausted, the report of the row
RunReport ==
    /\ run.pc = "cell"
    /\ run.j > Len(J_coupling_vals)
    /\ run' = [run EXCEPT !.pc = "receiver", !.i = run.i + 1]
    /\ printed' = printed + 1
    /\ UNCHANGED <<figureVars, callerVars, berryVars, workerVars, pc, D_vals, Bz_vals,
                   Chern_grid, i, j, writes, readEarly, callpc, frame, ret, raised, ncalls>>

\* line 117: return C_vals, J_coupling_vals, fidelity_grid, C_send
RunReturn ==
    /\ run.pc = "receiver"
    /\ run.i > Len(C_vals)
    /\ run' = [run EXCEPT !.pc = "returned"]
    /\ UNCHANGED <<figureVars, callerVars, berryVars, workerVars, pc, D_vals, Bz_vals,
                   Chern_grid, i, j, printed, writes, readEarly, callpc, frame, ret, raised,
                   ncalls>>

NextRun ==
    \/ RunSetup
    \/ RunReceiver
    \/ RunCell
    \/ RunCallback
    \/ RunSolved
    \/ RunDecode
    \/ RunReport
    \/ RunReturn

SpecRun == InitRun /\ [][NextRun]_vars

\* C29: at every time t in [0, 100) at which magnon_dynamics runs, the bit
\* index it drives, int(t/5) mod len(message), is the index k of the decode
\* window [k*100/len(message), (k+1)*100/len(message)) that contains t.
C29_DecodeWindowIsDriveSlot ==
    (run.called /\ run.t < TEnd) =>
        /\ WindowStart(run.bit_idx) <= run.t
        /\ run.t < WindowStart(run.bit_idx + 1)

\* C30: the topological factor of a cell is 1 exactly when
\* |C_send - C_recv| < 0.1 and 1e-6 otherwise; of the receivers 1..5 only
\* C = 3 is not suppressed; and every fidelity in the grid is m/len(message)
\* for a whole m between 0 and len(message).
C30_OnlyMatchedReceiverUnsuppressed ==
    /\ run.pc \in {"simulate", "decode"} =>
          /\ Abs(C_send - run.C_recv) < Quot(SCALE, 10) => run.topo_factor = SCALE
          /\ Abs(C_send - run.C_recv) >= Quot(SCALE, 10) => run.topo_factor = Quot(SCALE, 10^6)
          /\ run.topo_factor = SCALE <=> run.C_recv = 3 * SCALE
          /\ run.called =>
                run.J_eff = Mul(Mul(run.J_base, run.topo_factor),
                                axion_coupling_strength(C_send, run.C_recv))
    /\ \A c \in DOMAIN run.fidelity_grid :
          /\ run.fidelity_grid[c] >= 0
          /\ run.fidelity_grid[c] <= SCALE
          /\ \E m \in 0..Len(message) :
                Abs(Len(message) * run.fidelity_grid[c] - m * SCALE) <= Len(message)

\* run_sweep has returned a grid in which the matched receiver and a
\* suppressed one have fidelities that are neither 0 nor 1
C30_Witness ==
    /\ run.pc = "returned"
    /\ run.fidelity_grid[<<3, 1>>] \notin {0, SCALE}
    /\ run.fidelity_grid[<<1, 1>>] \notin {0, SCALE}
    /\ run.fidelity_grid[<<1, 1>>] # run.fidelity_grid[<<3, 1>>]

=============================================================================
